---- MODULE Spec2Model ----
(***************************************************************************)
(* A model of src/src/lib.rs: Matcher<T>, Fizzy<T>, Fizzy::apply and       *)
(* fizz_buzz<T>(), together with the value types and the input producers   *)
(* that the crate's tests instantiate them with.                           *)
(*                                                                         *)
(* A String is a TLA+ string; push_str is \o and is_empty is  = "".        *)
(* A value of a primitive numeric type is the integer it denotes (f64 is   *)
(* restricted to integer-valued doubles); a Fizzable is the record         *)
(* [f0 |-> n] wrapping its u8 field.                                       *)
(***************************************************************************)
EXTENDS Integers, Sequences, FiniteSets, TLC

VARIABLES
    ty,         \* the type parameter T of this run
    phase,      \* "build": the Fizzy is being built; "iter": apply was called; "done": the consumer stopped
    fizzy,      \* the Fizzy<T> value (moved into the map closure by apply)
    it,         \* the Map that apply returned (its input iterator)
    take,       \* the consumer's Take adapter: None (plain collect) or Some(n remaining)
    output,     \* the Vec<String> the consumer has collected so far
    added,      \* history: the arguments of the add_matcher calls, in call order
    source,     \* history: the input iterator as it was handed to apply
    asked,      \* history: the consumer's Take adapter as it was created
    taken,      \* history: the items the input iterator has yielded so far
    passes      \* history: for each output element, the check calls made to produce it

vars == <<ty, phase, fizzy, it, take, output, added, source, asked, taken, passes>>

----------------------------------------------------------------------------
(* Bounds of the exploration *)

MaxRules == 3
MaxLen == 2
MaxN == 16

----------------------------------------------------------------------------
(* Option<T> *)

None == [tag |-> "None"]
Some(x) == [tag |-> "Some", val |-> x]

----------------------------------------------------------------------------
(* The value types *)

Types == {"i32", "u8", "u64", "f64", "Fizzable"}
PrimInts == {"i32", "u8", "u64"}

\* T::from(i) for i: u8
From_u8(t, i) == IF t = "Fizzable" THEN [f0 |-> i] ELSE i

\* a % b on a signed or floating type: the remainder takes the sign of the dividend
TruncRem(a, b) ==
    LET absb == IF b < 0 THEN -b ELSE b
    IN  IF a >= 0 THEN a % absb ELSE -((-a) % absb)

\* <T as Rem>::rem
Rem(t, a, b) ==
    CASE t = "Fizzable" -> [f0 |-> a.f0 % b.f0]
      [] t \in {"u8", "u64"} -> a % b
      [] OTHER -> TruncRem(a, b)

\* <T as Add>::add.  The sums formed are at most MaxN + 1, which every one of
\* the types holds, so no overflow arises.
Add(t, a, b) == IF t = "Fizzable" THEN [f0 |-> a.f0 + b.f0] ELSE a + b

Digit(d) ==
    CASE d = 0 -> "0" [] d = 1 -> "1" [] d = 2 -> "2" [] d = 3 -> "3"
      [] d = 4 -> "4" [] d = 5 -> "5" [] d = 6 -> "6" [] d = 7 -> "7"
      [] d = 8 -> "8" [] d = 9 -> "9"

RECURSIVE Decimal(_)
\* the decimal digits of a natural number, most significant first
Decimal(n) == IF n < 10 THEN Digit(n) ELSE Decimal(n \div 10) \o Digit(n % 10)

\* to_string through the derived Debug of Fizzable instead of its Display
to_string_debug(t, v) ==
    IF t = "Fizzable" THEN "Fizzable(" \o Decimal(v.f0) \o ")"
    ELSE IF v < 0 THEN "-" \o Decimal(-v) ELSE Decimal(v)

\* <T as Display>: val.to_string()
to_string(t, v) ==
    IF t = "Fizzable" THEN Decimal(v.f0)
    ELSE IF v < 0 THEN "-" \o Decimal(-v) ELSE Decimal(v)

----------------------------------------------------------------------------
(* Matcher<T> *)

\* The closures handed to Matcher::new: |n| n % T::from(d) == T::from(0),
\* and the two constant predicates.
Divisible(d) == [kind |-> "rem", d |-> d]
Always == [kind |-> "true", d |-> 0]
Never == [kind |-> "false", d |-> 0]

\* (self.condition)(value)
Call(t, c, v) ==
    CASE c.kind = "rem" -> Rem(t, v, From_u8(t, c.d)) = From_u8(t, 0)
      [] c.kind = "true" -> TRUE
      [] OTHER -> FALSE

Matcher_new(matcher, subs) == [condition |-> matcher, substitution |-> subs]

\* check with the two branches exchanged
check_negated(t, self, value) ==
    IF Call(t, self.condition, value) THEN None ELSE Some(self.substitution)

check(t, self, value) ==
    IF Call(t, self.condition, value) THEN Some(self.substitution) ELSE None

----------------------------------------------------------------------------
(* Fizzy<T> *)

Fizzy_new == [matchers |-> <<>>]

\* add_matcher with  self.matchers.insert(0, matcher)  in place of push
add_matcher_front(self, matcher) == [self EXCEPT !.matchers = <<matcher>> \o @]

add_matcher(self, matcher) == [self EXCEPT !.matchers = Append(@, matcher)]

\* the loop with  result.insert_str(0, ..)  in place of  result.push_str(..)
RECURSIVE for_matchers_prepend(_, _, _, _)
for_matchers_prepend(t, ms, val, acc) ==
    IF ms = <<>> THEN acc
    ELSE LET c == check(t, Head(ms), val)
         IN  for_matchers_prepend(t, Tail(ms), val,
                [result |-> IF c.tag = "Some" THEN c.val \o acc.result ELSE acc.result,
                 calls  |-> Append(acc.calls,
                               [matcher |-> Head(ms), value |-> val, ret |-> c])])

\* The  for matcher in &self.matchers  loop.  acc.result is the String being
\* built; acc.calls records the check calls made.
RECURSIVE for_matchers(_, _, _, _)
for_matchers(t, ms, val, acc) ==
    IF ms = <<>> THEN acc
    ELSE LET c == check(t, Head(ms), val)
         IN  for_matchers(t, Tail(ms), val,
                [result |-> IF c.tag = "Some" THEN acc.result \o c.val ELSE acc.result,
                 calls  |-> Append(acc.calls,
                               [matcher |-> Head(ms), value |-> val, ret |-> c])])

\* the closure without the  result.is_empty()  branch
closure_no_fallback(t, self, val) ==
    LET acc == for_matchers(t, self.matchers, val, [result |-> "", calls |-> <<>>])
    IN  [item |-> acc.result, calls |-> acc.calls]

\* the closure falling back only when no matcher matched
closure_matched_flag(t, self, val) ==
    LET acc == for_matchers(t, self.matchers, val, [result |-> "", calls |-> <<>>])
    IN  [item  |-> IF \A i \in 1..Len(acc.calls) : acc.calls[i].ret = None
                   THEN to_string(t, val) ELSE acc.result,
         calls |-> acc.calls]

\* The closure  move |val| { ... }  that apply maps over the input.
closure(t, self, val) ==
    LET acc == for_matchers(t, self.matchers, val, [result |-> "", calls |-> <<>>])
    IN  [item  |-> IF acc.result = "" THEN to_string(t, val) ELSE acc.result,
         calls |-> acc.calls]

\* fizz_buzz with the two matchers added in the other order
fizz_buzz_swapped(t) ==
    add_matcher(
        add_matcher(Fizzy_new, Matcher_new(Divisible(5), "buzz")),
        Matcher_new(Divisible(3), "fizz"))

\* fizz_buzz::<T>()
fizz_buzz(t) ==
    add_matcher(
        add_matcher(Fizzy_new, Matcher_new(Divisible(3), "fizz")),
        Matcher_new(Divisible(5), "buzz"))

----------------------------------------------------------------------------
(* The input iterators the tests hand to apply *)

\* collatz_12.iter().cloned()
Slice(xs) == [kind |-> "slice", rest |-> xs]

\* lo..=hi
RangeInclusive(lo, hi) == [kind |-> "range", start |-> lo, end |-> hi, exhausted |-> FALSE]

\* std::iter::successors(Some(first), |prev| Some(*prev + 1.into()))
Successors(first) == [kind |-> "successors", next |-> Some(first)]

\* <I as Iterator>::next: the item and the iterator afterwards
iter_next(t, p) ==
    CASE p.kind = "slice" ->
            IF p.rest = <<>> THEN [item |-> None, iter |-> p]
            ELSE [item |-> Some(Head(p.rest)), iter |-> [p EXCEPT !.rest = Tail(@)]]
      [] p.kind = "range" ->
            IF p.exhausted \/ ~(p.start <= p.end) THEN [item |-> None, iter |-> p]
            ELSE IF p.start < p.end
                 THEN [item |-> Some(p.start), iter |-> [p EXCEPT !.start = @ + 1]]
                 ELSE [item |-> Some(p.start), iter |-> [p EXCEPT !.exhausted = TRUE]]
      [] OTHER ->
            IF p.next = None THEN [item |-> None, iter |-> p]
            ELSE [item |-> p.next,
                  iter |-> [p EXCEPT !.next = Some(Add(t, p.next.val, From_u8(t, 1)))]]

----------------------------------------------------------------------------
(* Fizzy::apply and the iterator it returns *)

\* apply over the input slice sorted instead of as given
RECURSIVE Insert(_, _)
Insert(x, xs) ==
    IF xs = <<>> THEN <<x>>
    ELSE IF x <= Head(xs) THEN <<x>> \o xs ELSE <<Head(xs)>> \o Insert(x, Tail(xs))

RECURSIVE Sorted(_)
Sorted(xs) == IF xs = <<>> THEN <<>> ELSE Insert(Head(xs), Sorted(Tail(xs)))

apply_sorted(self, iter) ==
    [self |-> self,
     iter |-> IF iter.kind = "slice" THEN [iter EXCEPT !.rest = Sorted(@)] ELSE iter]

\* apply(self, iter) = iter.map(move |val| ...): self and iter are moved into
\* the Map; nothing is read from iter.
apply(self, iter) == [self |-> self, iter |-> iter]

\* a Map that fetches one input element ahead of the one it transforms
Map_next_buffered(t, map) ==
    LET r == iter_next(t, map.iter)
        r2 == iter_next(t, r.iter)
    IN  IF r.item = None
        THEN [item |-> None, map |-> [map EXCEPT !.iter = r.iter],
              inner |-> <<>>, calls |-> <<>>]
        ELSE LET c == closure(t, map.self, r.item.val)
             IN  [item |-> Some(c.item), map |-> [map EXCEPT !.iter = r2.iter],
                  inner |-> IF r2.item = None THEN <<r.item.val>>
                            ELSE <<r.item.val, r2.item.val>>,
                  calls |-> c.calls]

\* Map::next: one item of the input, if any, through the closure.
\* inner: the items the input iterator yielded during the call.
Map_next(t, map) ==
    LET r == iter_next(t, map.iter)
    IN  IF r.item = None
        THEN [item |-> None, map |-> [map EXCEPT !.iter = r.iter],
              inner |-> <<>>, calls |-> <<>>]
        ELSE LET c == closure(t, map.self, r.item.val)
             IN  [item |-> Some(c.item), map |-> [map EXCEPT !.iter = r.iter],
                  inner |-> <<r.item.val>>, calls |-> c.calls]

\* The consumer's request for the next element: Take::next when the consumer
\* wrapped the Map in take(n), Map::next otherwise.
consumer_next(t, n, map) ==
    IF n = None THEN [r |-> Map_next(t, map), take |-> None]
    ELSE IF n.val = 0
         THEN [r |-> [item |-> None, map |-> map, inner |-> <<>>, calls |-> <<>>],
               take |-> n]
         ELSE [r |-> Map_next(t, map), take |-> Some(n.val - 1)]

----------------------------------------------------------------------------------------------------------------------------------------
(* The inputs explored *)

\* The matchers of tests::custom, a matcher with an empty substitution, a
\* matcher that never matches, and one whose substitution is a decimal text.
CustomMatchers ==
    { Matcher_new(Divisible(5), "Buzz"),
      Matcher_new(Divisible(3), "Fizz"),
      Matcher_new(Always, ""),
      Matcher_new(Never, "Bam"),
      Matcher_new(Divisible(3), "3") }

SliceValues == {1, 3, 15}

Slices == UNION {[1..n -> SliceValues] : n \in 0..MaxLen}

RangeStarts(t) == IF t = "i32" THEN {-MaxN, 1} ELSE {0, 1}

RangeEnds == {0, MaxN}

----------------------------------------------------------------------------
(* The state machine *)

Start(t, f, fns) ==
    /\ ty = t
    /\ phase = "build"
    /\ fizzy = f
    /\ added = fns
    /\ it = None
    /\ take = None
    /\ source = None
    /\ asked = None
    /\ output = <<>>
    /\ taken = <<>>
    /\ passes = <<>>

\* let fizzer: Fizzy<i32> = Fizzy::new()
Init == Start("i32", Fizzy_new, <<>>)

\* fizzy.add_matcher(m)
AddMatcher ==
    /\ phase = "build"
    /\ Len(fizzy.matchers) < MaxRules
    /\ \E m \in CustomMatchers :
          /\ fizzy' = add_matcher(fizzy, m)
          /\ added' = Append(added, m)
    /\ UNCHANGED <<ty, phase, it, take, output, source, asked, taken, passes>>

Apply(iter, n) ==
    /\ phase = "build"
    /\ phase' = "iter"
    /\ it' = apply(fizzy, iter)
    /\ source' = iter
    /\ take' = n
    /\ asked' = n
    /\ UNCHANGED <<ty, fizzy, output, added, taken, passes>>

\* fizzy.apply(xs.iter().cloned()), collected whole or through take(1)
ApplySlice ==
    \E xs \in Slices : \E n \in {None, Some(1)} : Apply(Slice(xs), n)

\* fizzy.apply(lo..=hi), collected whole or through take(1)
ApplyRange ==
    /\ ty \in PrimInts
    /\ \E lo \in RangeStarts(ty) : \E hi \in RangeEnds : \E n \in {None, Some(1)} :
          Apply(RangeInclusive(lo, hi), n)

\* fizzy.apply(successors(Some(T::from(1)), ...)).take(n)
ApplySuccessors ==
    \E n \in 0..MaxN : Apply(Successors(From_u8(ty, 1)), Some(n))

\* The consumer asks for the next element and gets one.
Pull ==
    /\ phase = "iter"
    /\ LET c == consumer_next(ty, take, it)
       IN  /\ c.r.item # None
           /\ output' = Append(output, c.r.item.val)
           /\ it' = c.r.map
           /\ take' = c.take
           /\ taken' = taken \o c.r.inner
           /\ passes' = Append(passes, c.r.calls)
    /\ UNCHANGED <<ty, phase, fizzy, added, source, asked>>

\* The consumer asks for the next element and is told there is none.
Finish ==
    /\ phase = "iter"
    /\ LET c == consumer_next(ty, take, it)
       IN  /\ c.r.item = None
           /\ it' = c.r.map
           /\ take' = c.take
           /\ taken' = taken \o c.r.inner
    /\ phase' = "done"
    /\ UNCHANGED <<ty, fizzy, output, added, source, asked, passes>>

\* A Fizzy<i32> built by add_matcher calls, applied to a slice.
Next == AddMatcher \/ ApplySlice \/ Pull \/ Finish

Spec == Init /\ [][Next]_vars

\* fizz_buzz::<T>() for each value type, applied to a range or to successors.
FizzInit ==
    \E t \in Types :
        Start(t, fizz_buzz(t),
              <<Matcher_new(Divisible(3), "fizz"), Matcher_new(Divisible(5), "buzz")>>)

FizzNext == ApplyRange \/ ApplySuccessors \/ Pull \/ Finish

FizzSpec == FizzInit /\ [][FizzNext]_vars

\* collect() runs its loop to the end: a request that can be made is made.
FizzFairSpec == FizzSpec /\ WF_vars(FizzNext)

----------------------------------------------------------------------------
(* Vocabulary of the properties *)

\* the number a value of type t denotes, and the value of type t denoting n
Num(t, v) == IF t = "Fizzable" THEN v.f0 ELSE v
Inject(t, n) == IF t = "Fizzable" THEN [f0 |-> n] ELSE n

U8Max == 255

Representable(t, n) ==
    CASE t \in {"u8", "Fizzable"} -> n \in 0..U8Max
      [] t = "u64" -> n >= 0
      [] OTHER -> TRUE

DigitChars == <<"0", "1", "2", "3", "4", "5", "6", "7", "8", "9">>

RECURSIVE NatText(_)
NatText(n) == IF n < 10 THEN DigitChars[n + 1] ELSE NatText(n \div 10) \o DigitChars[(n % 10) + 1]

\* the decimal text of an integer
Text(n) == IF n < 0 THEN "-" \o NatText(-n) ELSE NatText(n)

\* the rules of ms whose predicate holds for v, in the order of ms
Matching(t, ms, v) == SelectSeq(ms, LAMBDA m : Call(t, m.condition, v))

RECURSIVE ConcatSubs(_)
ConcatSubs(ms) == IF ms = <<>> THEN "" ELSE Head(ms).substitution \o ConcatSubs(Tail(ms))

\* the expected array of tests::simple, tests::u8, tests::u64, tests::f64
\* and tests::minimal_generic_bounds
Expected16 ==
    << "1", "2", "fizz", "4", "buzz", "fizz", "7", "8", "fizz", "buzz", "11", "fizz",
       "13", "14", "fizzbuzz", "16" >>

Outputs == 1..Len(output)

----------------------------------------------------------------------------
(* Properties *)

\* C1: with the rules of fizz_buzz(), the output for an integer n is
\* "fizzbuzz" when n is a multiple of 15, "fizz" when n is a multiple of 3
\* but not of 5, "buzz" when n is a multiple of 5 but not of 3, and the
\* decimal text of n otherwise.
C1_FizzBuzzTable ==
    \A i \in Outputs :
        LET n == Num(ty, taken[i])
        IN  output[i] = CASE n % 15 = 0 -> "fizzbuzz"
                          [] n % 3 = 0 /\ n % 5 # 0 -> "fizz"
                          [] n % 5 = 0 /\ n % 3 # 0 -> "buzz"
                          [] OTHER -> Text(n)

\* the run of tests::simple, collected whole
C1_Witness ==
    /\ ty = "i32" /\ phase = "done"
    /\ source = RangeInclusive(1, 16)
    /\ output = Expected16

\* C2: when some matching rule has a non-empty substitution, the output is
\* the concatenation of the substitutions of exactly the matching rules, in
\* the order in which the rules were added.
C2_ConcatInAddOrder ==
    \A i \in Outputs :
        LET hit == Matching(ty, added, taken[i])
        IN  (\E j \in 1..Len(hit) : hit[j].substitution # "")
                => output[i] = ConcatSubs(hit)

\* three rules with distinct non-empty substitutions all match 15
C2_Witness ==
    /\ added = << Matcher_new(Divisible(5), "Buzz"), Matcher_new(Divisible(3), "Fizz"),
                  Matcher_new(Divisible(3), "3") >>
    /\ taken = <<15>>
    /\ output = <<"BuzzFizz3">>

\* C3: when no rule's predicate holds for v, the output is exactly v's own
\* textual form.
C3_NoMatchGivesText ==
    \A i \in Outputs :
        Matching(ty, added, taken[i]) = <<>> => output[i] = Text(Num(ty, taken[i]))

\* a rule set whose only predicate is always false, and the empty rule set
\* being a prefix of its construction
C3_Witness ==
    /\ added = <<Matcher_new(Never, "Bam")>>
    /\ taken = <<15, 1>>
    /\ output = <<"15", "1">>

\* C4: the output has one element per input element, in input order, and
\* its i-th element is the transform of the i-th input element alone; a
\* finite input collected whole gives an output of the input's length.
C4_ElementwiseInOrder ==
    /\ source # None =>
          /\ Len(output) <= Len(source.rest)
          /\ taken = SubSeq(source.rest, 1, Len(output))
          /\ \A i \in Outputs :
                LET c == ConcatSubs(Matching(ty, added, source.rest[i]))
                IN  output[i] = IF c = "" THEN Text(Num(ty, source.rest[i])) ELSE c
    /\ (phase = "done" /\ take = None) => Len(output) = Len(source.rest)

\* a non-monotonic input, collected whole
C4_Witness ==
    /\ phase = "done" /\ take = None
    /\ source = Slice(<<15, 1>>)
    /\ added = <<Matcher_new(Divisible(3), "Fizz"), Matcher_new(Divisible(5), "Buzz")>>
    /\ output = <<"FizzBuzz", "1">>

\* C5: apply consumes no input; each element pulled consumes exactly one
\* input element and runs one pass in which every rule is checked once, in
\* order, on that element; after k pulls exactly k input elements have been
\* consumed, and none is consumed once the consumer has stopped.
C5_DemandDriven ==
    /\ Len(taken) = Len(output)
    /\ Len(passes) = Len(output)
    /\ source # None =>
          it.iter.rest = SubSeq(source.rest, Len(output) + 1, Len(source.rest))
    /\ \A i \in Outputs :
          /\ Len(passes[i]) = Len(added)
          /\ \A j \in 1..Len(added) :
                /\ passes[i][j].matcher = added[j]
                /\ passes[i][j].value = taken[i]

\* the consumer took one element of a two-element input and stopped
C5_Witness ==
    /\ phase = "done"
    /\ source = Slice(<<3, 15>>)
    /\ Len(added) = 3
    /\ Len(output) = 1
    /\ it.iter.rest = <<15>>

\* what collecting a Map over a finite input whole gives
RECURSIVE Collect(_, _)
Collect(t, map) ==
    LET r == Map_next(t, map)
    IN  IF r.item = None THEN <<>> ELSE <<r.item.val>> \o Collect(t, r.map)

\* C6: for every k, the collection of the first k elements of the output
\* over the unbounded successor sequence 1, 2, 3, ... ends, and its result
\* is the whole output over the range 1..=k.
C6_SuccessorsTake ==
    (phase = "iter" /\ source.kind = "successors")
        ~> (/\ phase = "done" /\ asked # None
            /\ Len(output) = asked.val
            /\ output = Collect("i32", apply(fizz_buzz("i32"), RangeInclusive(1, asked.val))))

\* the run of tests::f64
C6_Witness ==
    /\ ty = "f64" /\ phase = "done"
    /\ source = Successors(1)
    /\ output = Expected16

\* C7: Fizzy::new() holds no rules, and after any sequence of add_matcher
\* calls the rule list is the rules in call order, as many as the calls.
C7_AppendInCallOrder ==
    /\ fizzy.matchers = added
    /\ Len(fizzy.matchers) = Len(added)
    /\ added = <<>> => fizzy = Fizzy_new /\ Len(fizzy.matchers) = 0

C7_Witness ==
    /\ fizzy.matchers = << Matcher_new(Divisible(5), "Buzz"), Matcher_new(Divisible(3), "Fizz"),
                           Matcher_new(Never, "Bam") >>
    /\ phase = "build"

\* C8: check returns the rule's substitution exactly when the predicate holds
\* for the value and nothing otherwise; it leaves the rule unchanged, and
\* checks of the same value on the same rule agree.
C8_CheckContract ==
    /\ \A i \in 1..Len(passes) : \A j \in 1..Len(passes[i]) :
          LET c == passes[i][j]
          IN  /\ c.ret \in {None, Some(c.matcher.substitution)}
              /\ c.ret = Some(c.matcher.substitution) <=> Call(ty, c.matcher.condition, c.value)
              /\ \A i2 \in 1..Len(passes) : \A j2 \in 1..Len(passes[i2]) :
                    (passes[i2][j2].matcher = c.matcher /\ passes[i2][j2].value = c.value)
                        => passes[i2][j2].ret = c.ret
    /\ phase # "build" => it.self = fizzy

\* the same rules checked twice on the same value, one matching, one not
C8_Witness ==
    /\ added = <<Matcher_new(Divisible(5), "Buzz"), Matcher_new(Divisible(3), "Fizz")>>
    /\ taken = <<3, 3>>
    /\ Len(passes) = 2
    /\ passes[2][1].ret = None
    /\ passes[2][2].ret = Some("Fizz")

\* C9: with the rules of fizz_buzz(), the output for a number is the same
\* string under i32, u8, u64 and the wrapper Fizzable(u8), for every number
\* that both types represent.
C9_RepresentationIndependent ==
    ty \in {"i32", "u8", "u64", "Fizzable"} =>
        \A i \in Outputs : \A t2 \in {"i32", "u8", "u64", "Fizzable"} :
            LET n == Num(ty, taken[i])
            IN  Representable(t2, n) =>
                    output[i] = closure(t2, fizz_buzz(t2), Inject(t2, n)).item

\* the run of tests::minimal_generic_bounds
C9_Witness ==
    /\ ty = "Fizzable" /\ phase = "done"
    /\ output = Expected16
    /\ taken[15] = [f0 |-> 15]

\* C10 as stated: the output is v's textual form if and only if the
\* concatenation of the matching substitutions is empty, and otherwise the
\* output is that concatenation; a value matched only by rules with an empty
\* substitution yields its textual form, never an empty string.
C10_FallbackIffEmpty ==
    \A i \in Outputs :
        LET hit == Matching(ty, added, taken[i])
            c == ConcatSubs(hit)
            text == Text(Num(ty, taken[i]))
        IN  /\ output[i] = text <=> c = ""
            /\ c # "" => output[i] = c
            /\ (hit # <<>> /\ \A j \in 1..Len(hit) : hit[j].substitution = "")
                  => output[i] = text /\ output[i] # ""

\* C10 amended: the output is v's textual form if the concatenation of the
\* matching substitutions is empty, and otherwise the output is that
\* concatenation; a value matched only by rules with an empty substitution
\* yields its textual form, never an empty string.
C10_FallbackWhenEmpty ==
    \A i \in Outputs :
        LET hit == Matching(ty, added, taken[i])
            c == ConcatSubs(hit)
            text == Text(Num(ty, taken[i]))
        IN  /\ c = "" => output[i] = text
            /\ c # "" => output[i] = c
            /\ (hit # <<>> /\ \A j \in 1..Len(hit) : hit[j].substitution = "")
                  => output[i] = text /\ output[i] # ""

\* a value matched only by a rule whose substitution is empty
C10_Witness ==
    /\ added = <<Matcher_new(Never, "Bam"), Matcher_new(Always, "")>>
    /\ taken = <<3>>
    /\ output = <<"3">>

====
